---- MODULE Spec2Model ----
(***************************************************************************)
(* Measurement orchestration of lucasbraud/zero-db:                        *)
(*   - MeasurementStateMachine.transition  (core/state_machine.py)         *)
(*   - MeasurementController.run and its control signals                   *)
(*                                          (services/controller.py)       *)
(*   - MeasurementManager / WebSocketManager                               *)
(*                                          (services/measurement_manager) *)
(* The asyncio event loop is modelled as it schedules: one coroutine runs  *)
(* at a time and control changes hands only at an await that suspends.     *)
(***************************************************************************)
EXTENDS Integers, Sequences, FiniteSets, TLC

\* ------------------------------------------------------------------ bounds
MaxRuns == 2        \* start() calls that create a task
MaxDevices == 3     \* longest device list of a configuration
NumSubs == 1        \* websocket clients that may connect
WSSubs == 2         \* websocket clients of the broadcast specification
WSDevices == 1      \* longest device list of the broadcast specification
MaxClock == 2       \* readings of datetime.now() that differ
SMDevices == 2      \* device indices used by the state-machine events
SMValues == 1       \* distinct power values recorded
SMSetups == 2       \* distinct calibrated setup ids
MaxPos == 1         \* largest axis position and target, in micrometers
MaxDist == 1        \* largest retract distance, in micrometers
MaxSteps == 3       \* largest max_retract_steps
MaxVolt == 2        \* largest contact-sensor voltage, in threshold units

\* ------------------------------------------------------------ option types
\* Python's None for optional numbers (ids, angles and timestamps are >= 0)
NoneNum == 0 - 1
\* Python's None for optional strings
NoneStr == "None"

VARIABLES
    controller,     \* MeasurementManager.controller: 0 is None, else its id
    task,           \* MeasurementManager.task: 0 is None, else its id
    ctls,           \* the MeasurementController objects ever constructed
    tasks,          \* the asyncio tasks ever created by start()
    connections,    \* WebSocketManager.connections (a list)
    subs,           \* per websocket: had it connected when the event being
                    \* broadcast was yielded, has it been sent that event
    canceller,      \* the MeasurementManager.cancel() call in flight
    lastStart,      \* outcome of the latest start(): "none", "ok", "error"
    now,            \* datetime.now().timestamp()
    sm,             \* a MeasurementState threaded through transition()
    smPrev,         \* status before the latest transition() call
    smEv,           \* the event of the latest transition() call
    smRes,          \* its result: "none", "ok" or "err"
    smRepeat,       \* the latest call repeated the accepted call before it
    hw              \* the SurugaSeikiClient helper call in flight, the
                    \* client calls it has made and the axes it moves

vars == <<controller, task, ctls, tasks, connections, subs, canceller, lastStart,
          now, sm, smPrev, smEv, smRes, smRepeat, hw>>

mgrVars == <<controller, task, ctls, tasks, connections, subs, canceller, lastStart>>
smVars == <<sm, smPrev, smEv, smRes, smRepeat>>
hwVars == <<hw>>

\* =========================================================================
\* core/state_machine.py
\* =========================================================================

MeasurementStatus ==
    {"idle", "calibrating", "running", "paused", "completed", "failed",
     "cancelled"}

\* dict() / {}
EmptyDict == [k \in {} |-> 0]

\* {**d, k: v}
DictSet(d, k, v) == [x \in (DOMAIN d) \cup {k} |-> IF x = k THEN v ELSE d[x]]

Ok(v) == [ok |-> TRUE, value |-> v]
Err(e) == [ok |-> FALSE, error |-> e]

is_active(state) == state.status \in {"running", "paused"}

is_terminal(state) == state.status \in {"completed", "failed", "cancelled"}

\* len([p for p in self.power_readings.values() if p])
successful_devices(state) ==
    Cardinality({d \in DOMAIN state.power_readings :
                    DOMAIN state.power_readings[d] # {}})

\* a mutant of duration_seconds: the end time is always the clock
duration_seconds_ToNow(state, clock) ==
    IF state.started_at = NoneNum
    THEN NoneNum
    ELSE clock - state.started_at

\* MeasurementState.duration_seconds read at time clock; `completed_at or
\* now` takes the clock for None and for 0.0
duration_seconds(state, clock) ==
    IF state.started_at = NoneNum
    THEN NoneNum
    ELSE LET end_time == IF state.completed_at = NoneNum \/ state.completed_at = 0
                         THEN clock
                         ELSE state.completed_at
         IN end_time - state.started_at

initial_state(clock) ==
    [status |-> "idle",
     order_id |-> NoneStr,
     current_device_index |-> 0,
     total_devices |-> 0,
     current_operation |-> NoneStr,
     power_readings |-> EmptyDict,
     calibrated_setup_id |-> NoneNum,
     left_stage_angle |-> NoneNum,
     right_stage_angle |-> NoneNum,
     error |-> NoneStr,
     started_at |-> NoneNum,
     completed_at |-> NoneNum,
     timestamp |-> clock]

\* The event classes of the state machine
StartMeasurement(o, n) == [kind |-> "StartMeasurement", order_id |-> o, total_devices |-> n]
CompleteCalibration(id) == [kind |-> "CompleteCalibration", calibrated_setup_id |-> id]
CompleteChipAngleCalibration(l, r) ==
    [kind |-> "CompleteChipAngleCalibration", left_stage_angle |-> l, right_stage_angle |-> r]
StartDevice(i) == [kind |-> "StartDevice", device_index |-> i]
UpdateOperation(op) == [kind |-> "UpdateOperation", operation |-> op]
RecordPower(d, s, p) == [kind |-> "RecordPower", device_index |-> d, stage |-> s, power_dbm |-> p]
CompleteDevice == [kind |-> "CompleteDevice"]
PauseMeasurement == [kind |-> "PauseMeasurement"]
ResumeMeasurement == [kind |-> "ResumeMeasurement"]
CancelMeasurement == [kind |-> "CancelMeasurement"]
CompleteMeasurement == [kind |-> "CompleteMeasurement"]
FailMeasurement(e) == [kind |-> "FailMeasurement", error |-> e]
\* a MeasurementEvent subclass that transition() has no branch for
UnknownEvent == [kind |-> "Unknown"]

\* a mutant of RecordPowerReadings: a stage recorded before is added to
RecordPowerReadings_Accumulate(readings, event) ==
    LET withDevice == IF event.device_index \in DOMAIN readings
                      THEN readings
                      ELSE DictSet(readings, event.device_index, EmptyDict)
        old == withDevice[event.device_index]
    IN DictSet(withDevice, event.device_index,
               DictSet(old, event.stage,
                       IF event.stage \in DOMAIN old
                       THEN old[event.stage] + event.power_dbm
                       ELSE event.power_dbm))

\* a mutant of RecordPowerReadings: the device's mapping is replaced, not merged
RecordPowerReadings_Replace(readings, event) ==
    DictSet(readings, event.device_index,
            DictSet(EmptyDict, event.stage, event.power_dbm))

\* a mutant of RecordPowerReadings: a device seen for the first time only
\* gets its empty mapping
RecordPowerReadings_EmptyOnFirst(readings, event) ==
    IF event.device_index \in DOMAIN readings
    THEN DictSet(readings, event.device_index,
                 DictSet(readings[event.device_index], event.stage, event.power_dbm))
    ELSE DictSet(readings, event.device_index, EmptyDict)

\* the RecordPower branch of transition(): read-modify-write on a copy
RecordPowerReadings(readings, event) ==
    LET withDevice == IF event.device_index \in DOMAIN readings
                      THEN readings
                      ELSE DictSet(readings, event.device_index, EmptyDict)
    IN DictSet(withDevice, event.device_index,
               DictSet(withDevice[event.device_index], event.stage, event.power_dbm))

StartMeasurementBranch(state, event, clock) ==
    IF state.status # "idle"
    THEN Err(<<"Cannot start measurement from", state.status>>)
    ELSE Ok([state EXCEPT !.status = "calibrating",
                          !.order_id = event.order_id,
                          !.total_devices = event.total_devices,
                          !.current_device_index = 0,
                          !.power_readings = EmptyDict,
                          !.error = NoneStr,
                          !.started_at = clock,
                          !.timestamp = clock])

CompleteCalibrationBranch(state, event, clock) ==
    IF state.status # "calibrating"
    THEN Err(<<"Cannot complete calibration from", state.status>>)
    ELSE Ok([state EXCEPT !.calibrated_setup_id = event.calibrated_setup_id,
                          !.timestamp = clock])

CompleteChipAngleCalibrationBranch(state, event, clock) ==
    IF state.status # "calibrating"
    THEN Err(<<"Cannot complete chip angle calibration from", state.status>>)
    ELSE Ok([state EXCEPT !.status = "running",
                          !.left_stage_angle = event.left_stage_angle,
                          !.right_stage_angle = event.right_stage_angle,
                          !.timestamp = clock])

StartDeviceBranch(state, event, clock) ==
    IF state.status \notin {"running", "calibrating"}
    THEN Err(<<"Cannot start device from", state.status>>)
    ELSE LET new_state == [state EXCEPT !.current_device_index = event.device_index,
                                        !.timestamp = clock]
         IN IF state.status = "calibrating"
            THEN Ok([new_state EXCEPT !.status = "running"])
            ELSE Ok(new_state)

UpdateOperationBranch(state, event, clock) ==
    IF state.status \notin {"running", "calibrating"}
    THEN Err(<<"Cannot update operation from", state.status>>)
    ELSE Ok([state EXCEPT !.current_operation = event.operation,
                          !.timestamp = clock])

RecordPowerBranch(state, event, clock) ==
    IF ~is_active(state)
    THEN Err(<<"Cannot record power from", state.status>>)
    ELSE Ok([state EXCEPT
                !.power_readings = RecordPowerReadings(state.power_readings, event),
                !.timestamp = clock])

CompleteDeviceBranch(state, event, clock) ==
    IF state.status # "running"
    THEN Err(<<"Cannot complete device from", state.status>>)
    ELSE Ok([state EXCEPT !.timestamp = clock])

\* a mutant of PauseMeasurementBranch: the status is not looked at
PauseMeasurementBranch_FromAny(state, event, clock) ==
    Ok([state EXCEPT !.status = "paused", !.timestamp = clock])

PauseMeasurementBranch(state, event, clock) ==
    IF state.status # "running"
    THEN Err(<<"Cannot pause from", state.status>>)
    ELSE Ok([state EXCEPT !.status = "paused",
                          !.current_operation = NoneStr,
                          !.timestamp = clock])

ResumeMeasurementBranch(state, event, clock) ==
    IF state.status # "paused"
    THEN Err(<<"Cannot resume from", state.status>>)
    ELSE Ok([state EXCEPT !.status = "running",
                          !.timestamp = clock])

\* a mutant of CancelMeasurementBranch: completed_at is not stamped
CancelMeasurementBranch_NoStamp(state, event, clock) ==
    IF ~is_active(state)
    THEN Err(<<"Cannot cancel from", state.status>>)
    ELSE Ok([state EXCEPT !.status = "cancelled",
                          !.current_operation = NoneStr,
                          !.timestamp = clock])

\* a mutant of CancelMeasurementBranch: the reason is kept in error
CancelMeasurementBranch_WithError(state, event, clock) ==
    IF ~is_active(state)
    THEN Err(<<"Cannot cancel from", state.status>>)
    ELSE Ok([state EXCEPT !.status = "cancelled",
                          !.error = "cancelled",
                          !.current_operation = NoneStr,
                          !.completed_at = clock,
                          !.timestamp = clock])

CancelMeasurementBranch(state, event, clock) ==
    IF ~is_active(state)
    THEN Err(<<"Cannot cancel from", state.status>>)
    ELSE Ok([state EXCEPT !.status = "cancelled",
                          !.current_operation = NoneStr,
                          !.completed_at = clock,
                          !.timestamp = clock])

CompleteMeasurementBranch(state, event, clock) ==
    IF state.status # "running"
    THEN Err(<<"Cannot complete from", state.status>>)
    ELSE Ok([state EXCEPT !.status = "completed",
                          !.current_operation = NoneStr,
                          !.completed_at = clock,
                          !.timestamp = clock])

\* a mutant of FailMeasurementBranch: a terminal state may fail as well
FailMeasurementBranch_Always(state, event, clock) ==
    Ok([state EXCEPT !.status = "failed",
                     !.error = event.error,
                     !.current_operation = NoneStr,
                     !.completed_at = clock,
                     !.timestamp = clock])

\* a mutant of FailMeasurementBranch: the guard tests is_active, not is_terminal
FailMeasurementBranch_ActiveOnly(state, event, clock) ==
    IF ~is_active(state)
    THEN Err(<<"Cannot fail from terminal", state.status>>)
    ELSE Ok([state EXCEPT !.status = "failed",
                          !.error = event.error,
                          !.current_operation = NoneStr,
                          !.completed_at = clock,
                          !.timestamp = clock])

FailMeasurementBranch(state, event, clock) ==
    IF is_terminal(state)
    THEN Err(<<"Cannot fail from terminal", state.status>>)
    ELSE Ok([state EXCEPT !.status = "failed",
                          !.error = event.error,
                          !.current_operation = NoneStr,
                          !.completed_at = clock,
                          !.timestamp = clock])

\* MeasurementStateMachine.transition(state, event); clock is datetime.now()
transition(state, event, clock) ==
    CASE event.kind = "StartMeasurement" -> StartMeasurementBranch(state, event, clock)
      [] event.kind = "CompleteCalibration" -> CompleteCalibrationBranch(state, event, clock)
      [] event.kind = "CompleteChipAngleCalibration" ->
            CompleteChipAngleCalibrationBranch(state, event, clock)
      [] event.kind = "StartDevice" -> StartDeviceBranch(state, event, clock)
      [] event.kind = "UpdateOperation" -> UpdateOperationBranch(state, event, clock)
      [] event.kind = "RecordPower" -> RecordPowerBranch(state, event, clock)
      [] event.kind = "CompleteDevice" -> CompleteDeviceBranch(state, event, clock)
      [] event.kind = "PauseMeasurement" -> PauseMeasurementBranch(state, event, clock)
      [] event.kind = "ResumeMeasurement" -> ResumeMeasurementBranch(state, event, clock)
      [] event.kind = "CancelMeasurement" -> CancelMeasurementBranch(state, event, clock)
      [] event.kind = "CompleteMeasurement" -> CompleteMeasurementBranch(state, event, clock)
      [] event.kind = "FailMeasurement" -> FailMeasurementBranch(state, event, clock)
      [] OTHER -> Err(<<"Unknown event type", event.kind>>)

\* ------------------------------------------------- the state machine alone
Stages == {"left", "right"}

\* the events a caller may hand to transition()
SMEvents ==
    {StartMeasurement("order-1", n) : n \in 0..SMDevices}
    \cup {CompleteCalibration(id) : id \in 1..SMSetups}
    \cup {CompleteChipAngleCalibration(1, 2)}
    \cup {StartDevice(i) : i \in 0..(SMDevices - 1)}
    \cup {UpdateOperation("moving_to_device")}
    \cup {RecordPower(d, s, p) : d \in 0..(SMDevices - 1), s \in Stages, p \in 1..SMValues}
    \cup {CompleteDevice, PauseMeasurement, ResumeMeasurement, CancelMeasurement,
          CompleteMeasurement, FailMeasurement("boom"), UnknownEvent}

\* a caller applies an event and keeps its state when the result is Err
Apply(ev) ==
    LET result == transition(sm, ev, now)
    IN /\ smPrev' = sm.status
       /\ smEv' = ev
       /\ smRes' = IF result.ok THEN "ok" ELSE "err"
       /\ smRepeat' = (ev = smEv /\ smRes = "ok")
       /\ sm' = IF result.ok THEN result.value ELSE sm
       /\ UNCHANGED <<now, mgrVars, hwVars>>

\* the wall clock advances
Tick ==
    /\ now < MaxClock
    /\ now' = now + 1
    /\ UNCHANGED <<smVars, mgrVars, hwVars>>

\* =========================================================================
\* services/controller.py and services/measurement_manager.py
\* =========================================================================

\* a progress event yielded by run(): its event_type and its device_index
Entry(kind, dev) == [kind |-> kind, dev |-> dev]

TerminalKinds == {"measurement_completed", "measurement_cancelled", "measurement_failed"}

DeviceKinds == {"device_started", "device_moving", "device_completed", "device_skipped"}

ProgressKinds ==
    TerminalKinds \cup DeviceKinds
    \cup {"measurement_started", "measurement_paused", "measurement_resumed",
          "error_occurred"}

\* MeasurementController.__init__
NewController(n) ==
    [n |-> n,
     state |-> initial_state(now),
     pause_event |-> FALSE,
     resume_event |-> FALSE,
     cancel_event |-> FALSE,
     alignment_counter |-> 0,
     suruga |-> "none",
     exfo |-> "none",
     suruga_connected |-> FALSE,
     exfo_connected |-> FALSE,
     events |-> <<>>]

\* asyncio.create_task(self._run_with_broadcasting())
NewTask ==
    [pc |-> "created",
     status |-> "pending",
     ctl |-> 0,
     cont |-> "none",
     dev |-> 0,
     bi |-> 0,
     cur |-> 0,
     failed |-> <<>>,
     must_cancel |-> FALSE,
     exc |-> FALSE]

\* where a task waits for the event loop to wake it
SuspendedPcs ==
    {"created", "conn_suruga", "conn_exfo", "send", "wait_resume", "disc_exfo",
     "disc_suruga", "finished"}

TaskIds == 1..Len(tasks)

\* no coroutine is between two awaits: the event loop may pick what runs next
LoopIdle == \A t \in TaskIds : tasks[t].pc \in SuspendedPcs

\* task t may be woken normally
Wakes(t, pc) ==
    /\ t \in TaskIds
    /\ LoopIdle
    /\ tasks[t].pc = pc
    /\ ~tasks[t].must_cancel

\* task t is executing at pc
At(t, pc) ==
    /\ t \in TaskIds
    /\ tasks[t].pc = pc

\* `yield event` in run(): the consumer broadcasts it, then the generator
\* resumes at cont
Emit(t, kind, dev, cont) ==
    /\ ctls' = [ctls EXCEPT ![tasks[t].ctl].events = Append(@, Entry(kind, dev))]
    /\ tasks' = [tasks EXCEPT ![t].pc = "bcast", ![t].cont = cont,
                              ![t].bi = 0, ![t].failed = <<>>]

\* the events run() of controller c has yielded so far
Events(c) == ctls[c].events

\* ------------------------------------------------ MeasurementManager.start

\* a mutant of IsActive: it asks the state snapshot and not the task
IsActive_ByState ==
    /\ controller # 0
    /\ is_active(ctls[controller].state)

\* a mutant of IsActive: done() is tested the wrong way round
IsActive_Inverted ==
    /\ controller # 0
    /\ task # 0
    /\ tasks[task].status # "pending"

\* MeasurementManager.is_active
IsActive ==
    /\ controller # 0
    /\ task # 0
    /\ tasks[task].status = "pending"

\* what is left of a controller the manager has let go of
DroppedController ==
    [n |-> 0,
     state |-> initial_state(1),
     pause_event |-> FALSE,
     resume_event |-> FALSE,
     cancel_event |-> FALSE,
     alignment_counter |-> 0,
     suruga |-> "none",
     exfo |-> "none",
     suruga_connected |-> FALSE,
     exfo_connected |-> FALSE,
     events |-> <<>>]

\* what is left of a finished task the manager has let go of
DroppedTask ==
    [pc |-> "finished",
     status |-> "dropped",
     ctl |-> 0,
     cont |-> "none",
     dev |-> 0,
     bi |-> 0,
     cur |-> 0,
     failed |-> <<>>,
     must_cancel |-> FALSE,
     exc |-> FALSE]

\* start() overwrites self.controller and self.task: the objects of a
\* finished run are unreachable from then on; a task still pending keeps
\* itself and the controller it runs alive
Released(objs, dropped) ==
    [i \in 1..Len(objs) |->
        IF tasks[i].status = "pending" THEN objs[i] ELSE dropped]

\* MeasurementManager.start(config), config.devices of length n
Start(n) ==
    /\ LoopIdle
    /\ IF IsActive
       THEN /\ lastStart' = "error"
            /\ UNCHANGED <<controller, task, ctls, tasks>>
       ELSE /\ Len(tasks) < MaxRuns
            /\ ctls' = Append(Released(ctls, DroppedController), NewController(n))
            /\ controller' = Len(ctls) + 1
            /\ tasks' = Append(Released(tasks, DroppedTask), NewTask)
            /\ task' = Len(tasks) + 1
            /\ lastStart' = "ok"
    /\ UNCHANGED <<connections, canceller, now, subs, smVars, hwVars>>

\* ------------------------------------- MeasurementManager.pause / resume

\* MeasurementManager.pause -> MeasurementController.pause
Pause ==
    /\ LoopIdle
    /\ controller # 0
    /\ ~ctls[controller].pause_event
    /\ ctls' = [ctls EXCEPT ![controller].pause_event = TRUE]
    /\ UNCHANGED <<controller, task, tasks, connections, canceller, lastStart, now, subs, smVars, hwVars>>

\* MeasurementManager.resume -> MeasurementController.resume
Resume ==
    /\ LoopIdle
    /\ controller # 0
    /\ ~ctls[controller].resume_event
    /\ ctls' = [ctls EXCEPT ![controller].resume_event = TRUE]
    /\ UNCHANGED <<controller, task, tasks, connections, canceller, lastStart, now, subs, smVars, hwVars>>

\* ------------------------------------------------ MeasurementManager.cancel

\* MeasurementController.cancel
SetCancel(cs, c) == [cs EXCEPT ![c].cancel_event = TRUE]

\* run() of controller c is suspended in `await self._resume_event.wait()`
\* and no resume() has been signalled
BlockedAtPause(c) ==
    /\ ~ctls[c].resume_event
    /\ \E t \in TaskIds : tasks[t].ctl = c /\ tasks[t].pc = "wait_resume"

\* MeasurementManager.cancel up to its await: signals the controller, then
\* waits for the task unless it is done already. `blocked` keeps, while
\* cancel() waits, the controller the signal found blocked at a pause
CancelCall ==
    /\ LoopIdle
    /\ canceller.pc = "idle"
    /\ controller # 0
    /\ ctls' = SetCancel(ctls, controller)
    /\ canceller' = IF task # 0 /\ tasks[task].status = "pending"
                    THEN [pc |-> "waiting", target |-> task,
                          blocked |-> IF BlockedAtPause(controller) THEN controller ELSE 0]
                    ELSE canceller
    /\ UNCHANGED <<controller, task, tasks, connections, lastStart, now, subs, smVars, hwVars>>

\* a mutant of CancelTimeout: the timeout passes and the task is left alone,
\* as with a plain `await self.task`
CancelTimeout_NoCancel ==
    /\ LoopIdle
    /\ canceller.pc = "waiting"
    /\ tasks[canceller.target].status = "pending"
    /\ tasks[canceller.target].pc # "created"
    /\ canceller' = [canceller EXCEPT !.pc = "timedout"]
    /\ UNCHANGED <<controller, task, ctls, tasks, connections, lastStart, now, subs, smVars, hwVars>>

\* asyncio.wait_for(self.task, timeout=10.0) runs out: it cancels the task
\* and goes on waiting until the task is done. A task that start() has just
\* made is ready to run and takes its first step long before the timeout
CancelTimeout ==
    /\ LoopIdle
    /\ canceller.pc = "waiting"
    /\ tasks[canceller.target].status = "pending"
    /\ tasks[canceller.target].pc # "created"
    /\ tasks' = [tasks EXCEPT ![canceller.target].must_cancel = TRUE]
    /\ canceller' = [canceller EXCEPT !.pc = "timedout"]
    /\ UNCHANGED <<controller, task, ctls, connections, lastStart, now, subs, smVars, hwVars>>

\* the awaited task is done and cancel() resumes: it returns, or after a
\* timeout it runs `self.task.cancel()` on the manager's task of that moment
CancelWake ==
    /\ LoopIdle
    /\ canceller.pc \in {"waiting", "timedout"}
    /\ tasks[canceller.target].status # "pending"
    /\ tasks' = IF canceller.pc = "timedout" /\ task # 0 /\ tasks[task].status = "pending"
                THEN [tasks EXCEPT ![task].must_cancel = TRUE]
                ELSE tasks
    /\ canceller' = [pc |-> "idle", target |-> 0, blocked |-> 0]
    /\ UNCHANGED <<controller, task, ctls, connections, lastStart, now, subs, smVars, hwVars>>

\* ------------------------------------------------------- WebSocketManager

\* the websocket clients
SubIds == 1..(IF NumSubs > WSSubs THEN NumSubs ELSE WSSubs)

\* no broadcast is under way: nothing is recorded about any websocket
NoBroadcast == [s \in SubIds |-> [early |-> FALSE, got |-> FALSE]]

\* a websocket object some broadcast in flight still refers to
InFlight(s) ==
    \E t \in TaskIds :
        /\ tasks[t].status = "pending"
        /\ tasks[t].pc \in {"send", "bcast"}
        /\ \/ tasks[t].cur = s
           \/ \E i \in 1..Len(tasks[t].failed) : tasks[t].failed[i] = s

InList(s, list) == \E i \in 1..Len(list) : list[i] = s

\* list.remove(x) when x is in the list
Remove(list, s) == SelectSeq(list, LAMBDA x : x # s)

\* WebSocketManager.connect: a new websocket object is appended
Connect(s) ==
    /\ LoopIdle
    /\ ~InList(s, connections)
    /\ ~InFlight(s)
    /\ connections' = Append(connections, s)
    /\ subs' = [subs EXCEPT ![s] = [early |-> FALSE, got |-> FALSE]]
    /\ UNCHANGED <<controller, task, ctls, tasks, canceller, lastStart, now, smVars, hwVars>>

\* WebSocketManager.disconnect, called by the websocket route
Disconnect(s) ==
    /\ LoopIdle
    /\ InList(s, connections)
    /\ connections' = Remove(connections, s)
    /\ UNCHANGED <<controller, task, ctls, tasks, canceller, lastStart, now, subs, smVars, hwVars>>

\* WebSocketManager.broadcast: the loop over the live list; after the loop
\* the failed connections are removed and the generator is resumed
BroadcastStep(t) ==
    /\ At(t, "bcast")
    /\ IF tasks[t].bi < Len(connections)
       THEN /\ tasks' = [tasks EXCEPT ![t].cur = connections[tasks[t].bi + 1],
                                      ![t].bi = @ + 1,
                                      ![t].pc = "send"]
            /\ subs' = IF tasks[t].bi = 0
                       THEN [s \in SubIds |->
                               [early |-> InList(s, connections), got |-> FALSE]]
                       ELSE subs
            /\ UNCHANGED connections
       ELSE /\ connections' = SelectSeq(connections,
                                        LAMBDA x : ~InList(x, tasks[t].failed))
            /\ tasks' = [tasks EXCEPT ![t].pc = tasks[t].cont, ![t].cur = 0,
                                      ![t].bi = 0, ![t].failed = <<>>]
            /\ subs' = NoBroadcast
    /\ UNCHANGED <<controller, task, ctls, canceller, lastStart, now, smVars, hwVars>>

\* `await connection.send_json(message)` returns or raises
SendReturn(t, ok) ==
    /\ Wakes(t, "send")
    /\ tasks' = [tasks EXCEPT ![t].pc = "bcast",
                              ![t].failed = IF ok THEN @ ELSE Append(@, tasks[t].cur)]
    /\ subs' = IF ok THEN [subs EXCEPT ![tasks[t].cur].got = TRUE] ELSE subs
    /\ UNCHANGED <<controller, task, ctls, connections, canceller, lastStart, now, smVars, hwVars>>

\* ------------------------------------------- _run_with_broadcasting / run()

\* the task's first step: it reads self.controller and enters run(), which
\* yields measurement_started
TaskStart(t) ==
    /\ Wakes(t, "created")
    /\ IF controller = 0
       THEN /\ tasks' = [tasks EXCEPT ![t].pc = "finished", ![t].status = "done"]
            /\ UNCHANGED ctls
       ELSE /\ ctls' = [ctls EXCEPT ![controller].events =
                            Append(@, Entry("measurement_started", NoneNum))]
            /\ tasks' = [tasks EXCEPT ![t].ctl = controller, ![t].pc = "bcast",
                                      ![t].cont = "enter"]
    /\ UNCHANGED <<controller, task, connections, canceller, lastStart, now, subs, smVars, hwVars>>

\* `async with SurugaSeikiClient(...)`: __aenter__ awaits connect(), which
\* creates the http client and awaits the health check
EnterSuruga(t) ==
    /\ At(t, "enter")
    /\ ctls' = [ctls EXCEPT ![tasks[t].ctl].suruga = "open"]
    /\ tasks' = [tasks EXCEPT ![t].pc = "conn_suruga"]
    /\ UNCHANGED <<controller, task, connections, canceller, lastStart, now, subs, smVars, hwVars>>

\* the health check of the first client returns, well or not; __aenter__
\* drops the result, and the second client's __aenter__ awaits its own
SurugaConnected(t, ok) ==
    /\ Wakes(t, "conn_suruga")
    /\ ctls' = [ctls EXCEPT ![tasks[t].ctl].suruga_connected = ok,
                            ![tasks[t].ctl].exfo = "open"]
    /\ tasks' = [tasks EXCEPT ![t].pc = "conn_exfo"]
    /\ UNCHANGED <<controller, task, connections, canceller, lastStart, now, subs, smVars, hwVars>>

\* a mutant of ExfoConnected: a rejected StartMeasurement is passed over and
\* run() goes on to the devices
ExfoConnected_IgnoreErr(t, ok) ==
    /\ Wakes(t, "conn_exfo")
    /\ LET c == tasks[t].ctl
           result == transition(ctls[c].state,
                                StartMeasurement("order-1", ctls[c].n), now)
       IN /\ ctls' = [ctls EXCEPT ![c].exfo_connected = ok,
                                  ![c].state = IF result.ok THEN result.value ELSE @]
          /\ tasks' = [tasks EXCEPT ![t].pc = "loop", ![t].dev = 0]
    /\ UNCHANGED <<controller, task, connections, canceller, lastStart, now, subs, smVars, hwVars>>

\* the second health check returns; run() applies StartMeasurement
ExfoConnected(t, ok) ==
    /\ Wakes(t, "conn_exfo")
    /\ LET c == tasks[t].ctl
           result == transition(ctls[c].state,
                                StartMeasurement("order-1", ctls[c].n), now)
       IN IF result.ok
          THEN /\ ctls' = [ctls EXCEPT ![c].exfo_connected = ok,
                                       ![c].state = result.value]
               /\ tasks' = [tasks EXCEPT ![t].pc = "loop", ![t].dev = 0]
          ELSE /\ ctls' = [ctls EXCEPT ![c].exfo_connected = ok,
                                       ![c].events = Append(@, Entry("measurement_failed", NoneNum))]
               /\ tasks' = [tasks EXCEPT ![t].pc = "bcast", ![t].cont = "exit",
                                         ![t].bi = 0, ![t].failed = <<>>]
    /\ UNCHANGED <<controller, task, connections, canceller, lastStart, now, subs, smVars, hwVars>>

\* a mutant of LoopHead: the cancellation branch does not return
LoopHead_NoReturn(t) ==
    /\ At(t, "loop")
    /\ LET c == tasks[t].ctl
           i == tasks[t].dev
       IN IF i >= ctls[c].n
          THEN Emit(t, "measurement_completed", NoneNum, "exit")
          ELSE IF ctls[c].cancel_event
          THEN Emit(t, "measurement_cancelled", i, "process")
          ELSE IF ctls[c].pause_event
          THEN Emit(t, "measurement_paused", i, "pause_wait")
          ELSE Emit(t, "device_started", i, "started")
    /\ UNCHANGED <<controller, task, connections, canceller, lastStart, now, subs, smVars, hwVars>>

\* a mutant of LoopHead: the pause check comes before the cancellation check
LoopHead_PauseFirst(t) ==
    /\ At(t, "loop")
    /\ LET c == tasks[t].ctl
           i == tasks[t].dev
       IN IF i >= ctls[c].n
          THEN Emit(t, "measurement_completed", NoneNum, "exit")
          ELSE IF ctls[c].pause_event
          THEN Emit(t, "measurement_paused", i, "pause_wait")
          ELSE IF ctls[c].cancel_event
          THEN Emit(t, "measurement_cancelled", i, "exit")
          ELSE Emit(t, "device_started", i, "started")
    /\ UNCHANGED <<controller, task, connections, canceller, lastStart, now, subs, smVars, hwVars>>

\* a mutant of LoopHead: the pause check is missing
LoopHead_NoPause(t) ==
    /\ At(t, "loop")
    /\ LET c == tasks[t].ctl
           i == tasks[t].dev
       IN IF i >= ctls[c].n
          THEN Emit(t, "measurement_completed", NoneNum, "exit")
          ELSE IF ctls[c].cancel_event
          THEN Emit(t, "measurement_cancelled", i, "exit")
          ELSE Emit(t, "device_started", i, "started")
    /\ UNCHANGED <<controller, task, connections, canceller, lastStart, now, subs, smVars, hwVars>>

\* a mutant of LoopHead: cancellation is only looked at before the first device
LoopHead_CancelOnce(t) ==
    /\ At(t, "loop")
    /\ LET c == tasks[t].ctl
           i == tasks[t].dev
       IN IF i >= ctls[c].n
          THEN Emit(t, "measurement_completed", NoneNum, "exit")
          ELSE IF ctls[c].cancel_event /\ i = 0
          THEN Emit(t, "measurement_cancelled", i, "exit")
          ELSE IF ctls[c].pause_event
          THEN Emit(t, "measurement_paused", i, "pause_wait")
          ELSE Emit(t, "device_started", i, "started")
    /\ UNCHANGED <<controller, task, connections, canceller, lastStart, now, subs, smVars, hwVars>>

\* a mutant of LoopHead: the cancellation branch applies CancelMeasurement to
\* the state before it yields measurement_cancelled
LoopHead_AppliesCancel(t) ==
    /\ At(t, "loop")
    /\ LET c == tasks[t].ctl
           i == tasks[t].dev
           result == transition(ctls[c].state, CancelMeasurement, now)
       IN IF i >= ctls[c].n
          THEN Emit(t, "measurement_completed", NoneNum, "exit")
          ELSE IF ctls[c].cancel_event
          THEN /\ ctls' = [ctls EXCEPT ![c].events = Append(@, Entry("measurement_cancelled", i)),
                                       ![c].state = IF result.ok THEN result.value ELSE @]
               /\ tasks' = [tasks EXCEPT ![t].pc = "bcast", ![t].cont = "exit",
                                         ![t].bi = 0, ![t].failed = <<>>]
          ELSE IF ctls[c].pause_event
          THEN Emit(t, "measurement_paused", i, "pause_wait")
          ELSE Emit(t, "device_started", i, "started")
    /\ UNCHANGED <<controller, task, connections, canceller, lastStart, now, subs, smVars, hwVars>>

\* the head of `for device in self.config.devices`: the loop ends and
\* measurement_completed is yielded, or the checkpoint of device i: the
\* cancellation check, the pause check, then _process_device
LoopHead(t) ==
    /\ At(t, "loop")
    /\ LET c == tasks[t].ctl
           i == tasks[t].dev
       IN IF i >= ctls[c].n
          THEN Emit(t, "measurement_completed", NoneNum, "exit")
          ELSE IF ctls[c].cancel_event
          THEN Emit(t, "measurement_cancelled", i, "exit")
          ELSE IF ctls[c].pause_event
          THEN Emit(t, "measurement_paused", i, "pause_wait")
          ELSE Emit(t, "device_started", i, "started")
    /\ UNCHANGED <<controller, task, connections, canceller, lastStart, now, subs, smVars, hwVars>>

\* `await self._resume_event.wait()`: returns at once when the event is set,
\* suspends otherwise
PauseWait(t) ==
    /\ At(t, "pause_wait")
    /\ IF ctls[tasks[t].ctl].resume_event
       THEN /\ ctls' = [ctls EXCEPT ![tasks[t].ctl].resume_event = FALSE,
                                    ![tasks[t].ctl].events =
                                        Append(@, Entry("measurement_resumed", tasks[t].dev))]
            /\ tasks' = [tasks EXCEPT ![t].pc = "bcast", ![t].cont = "process",
                                      ![t].bi = 0, ![t].failed = <<>>]
       ELSE /\ tasks' = [tasks EXCEPT ![t].pc = "wait_resume"]
            /\ UNCHANGED ctls
    /\ UNCHANGED <<controller, task, connections, canceller, lastStart, now, subs, smVars, hwVars>>

\* a mutant of ResumeWake: the device of the checkpoint is passed over
ResumeWake_SkipDevice(t) ==
    /\ Wakes(t, "wait_resume")
    /\ ctls[tasks[t].ctl].resume_event
    /\ ctls' = [ctls EXCEPT ![tasks[t].ctl].resume_event = FALSE,
                            ![tasks[t].ctl].events =
                                Append(@, Entry("measurement_resumed", tasks[t].dev))]
    /\ tasks' = [tasks EXCEPT ![t].pc = "bcast", ![t].cont = "loop",
                              ![t].dev = @ + 1,
                              ![t].bi = 0, ![t].failed = <<>>]
    /\ UNCHANGED <<controller, task, connections, canceller, lastStart, now, subs, smVars, hwVars>>

\* resume() has set the event: the waiting run() wakes, clears the event and
\* yields measurement_resumed
ResumeWake(t) ==
    /\ Wakes(t, "wait_resume")
    /\ ctls[tasks[t].ctl].resume_event
    /\ ctls' = [ctls EXCEPT ![tasks[t].ctl].resume_event = FALSE,
                            ![tasks[t].ctl].events =
                                Append(@, Entry("measurement_resumed", tasks[t].dev))]
    /\ tasks' = [tasks EXCEPT ![t].pc = "bcast", ![t].cont = "process",
                              ![t].bi = 0, ![t].failed = <<>>]
    /\ UNCHANGED <<controller, task, connections, canceller, lastStart, now, subs, smVars, hwVars>>

\* _process_device: yields device_started
ProcessDevice(t) ==
    /\ At(t, "process")
    /\ Emit(t, "device_started", tasks[t].dev, "started")
    /\ UNCHANGED <<controller, task, connections, canceller, lastStart, now, subs, smVars, hwVars>>

\* _process_device after device_started: applies StartDevice and yields
\* device_moving; a rejection yields error_occurred, then device_skipped,
\* and _process_device returns, so that the loop takes the next device
DeviceStarted(t) ==
    /\ t \in TaskIds
    /\ tasks[t].pc \in {"started", "errored", "next"}
    /\ LET c == tasks[t].ctl
           result == transition(ctls[c].state, StartDevice(tasks[t].dev), now)
       IN CASE tasks[t].pc = "started" /\ result.ok ->
                /\ ctls' = [ctls EXCEPT ![c].state = result.value,
                                        ![c].events = Append(@, Entry("device_moving", tasks[t].dev))]
                /\ tasks' = [tasks EXCEPT ![t].pc = "bcast", ![t].cont = "moving",
                                          ![t].bi = 0, ![t].failed = <<>>]
            [] tasks[t].pc = "started" /\ ~result.ok ->
                Emit(t, "error_occurred", tasks[t].dev, "errored")
            [] tasks[t].pc = "errored" ->
                Emit(t, "device_skipped", tasks[t].dev, "next")
            [] tasks[t].pc = "next" ->
                /\ tasks' = [tasks EXCEPT ![t].pc = "loop", ![t].dev = @ + 1]
                /\ UNCHANGED ctls
    /\ UNCHANGED <<controller, task, connections, canceller, lastStart, now, subs, smVars, hwVars>>

\* _process_device after device_moving: applies UpdateOperation and
\* CompleteDevice, keeping the state where one is rejected, and yields
\* device_completed
DeviceMoving(t) ==
    /\ At(t, "moving")
    /\ LET c == tasks[t].ctl
           r1 == transition(ctls[c].state, UpdateOperation("moving_to_device"), now)
           s1 == IF r1.ok THEN r1.value ELSE ctls[c].state
           r2 == transition(s1, CompleteDevice, now)
           s2 == IF r2.ok THEN r2.value ELSE s1
       IN /\ ctls' = [ctls EXCEPT ![c].state = s2,
                                  ![c].events = Append(@, Entry("device_completed", tasks[t].dev))]
          /\ tasks' = [tasks EXCEPT ![t].pc = "bcast", ![t].cont = "completed",
                                    ![t].bi = 0, ![t].failed = <<>>]
    /\ UNCHANGED <<controller, task, connections, canceller, lastStart, now, subs, smVars, hwVars>>

\* a mutant of DeviceCompleted: the alignment counter is not incremented
DeviceCompleted_NoCount(t) ==
    /\ At(t, "completed")
    /\ tasks' = [tasks EXCEPT ![t].pc = "loop", ![t].dev = @ + 1]
    /\ UNCHANGED <<controller, task, ctls, connections, canceller, lastStart, now, subs, smVars, hwVars>>

\* _process_device after device_completed: counts the device; the loop takes
\* the next one
DeviceCompleted(t) ==
    /\ At(t, "completed")
    /\ ctls' = [ctls EXCEPT ![tasks[t].ctl].alignment_counter = @ + 1]
    /\ tasks' = [tasks EXCEPT ![t].pc = "loop", ![t].dev = @ + 1]
    /\ UNCHANGED <<controller, task, connections, canceller, lastStart, now, subs, smVars, hwVars>>

\* run() leaves the `async with` after its terminal event: the second
\* client's __aexit__ awaits disconnect()
ExitWith(t) ==
    /\ At(t, "exit")
    /\ tasks' = [tasks EXCEPT ![t].pc = "disc_exfo"]
    /\ UNCHANGED <<controller, task, ctls, connections, canceller, lastStart, now, subs, smVars, hwVars>>

\* the second client is closed; the first client's __aexit__ awaits
ExfoClosed(t) ==
    /\ Wakes(t, "disc_exfo")
    /\ ctls' = [ctls EXCEPT ![tasks[t].ctl].exfo = "closed",
                            ![tasks[t].ctl].exfo_connected = FALSE]
    /\ tasks' = [tasks EXCEPT ![t].pc = "disc_suruga"]
    /\ UNCHANGED <<controller, task, connections, canceller, lastStart, now, subs, smVars, hwVars>>

\* the first client is closed: run() is over, or the CancelledError that
\* unwound it leaves the task cancelled
SurugaClosed(t) ==
    /\ Wakes(t, "disc_suruga")
    /\ ctls' = [ctls EXCEPT ![tasks[t].ctl].suruga = "closed",
                            ![tasks[t].ctl].suruga_connected = FALSE]
    /\ tasks' = [tasks EXCEPT ![t].pc = "finished",
                              ![t].status = IF tasks[t].exc THEN "cancelled" ELSE "done"]
    /\ UNCHANGED <<controller, task, connections, canceller, lastStart, now, subs, smVars, hwVars>>

\* a cancelled task is woken with CancelledError at its await. It is no
\* Exception: neither connect(), broadcast(), run() nor
\* _run_with_broadcasting catches it. Inside `async with` the __aexit__ of
\* each client entered so far still awaits disconnect()
Cancelled(t) ==
    /\ t \in TaskIds
    /\ LoopIdle
    /\ tasks[t].status = "pending"
    /\ tasks[t].must_cancel
    /\ LET pc == tasks[t].pc
       IN tasks' = [tasks EXCEPT
            ![t].must_cancel = FALSE,
            ![t].exc = TRUE,
            ![t].pc = CASE pc \in {"created", "conn_suruga", "send", "disc_suruga"} -> "finished"
                        [] pc \in {"conn_exfo", "disc_exfo"} -> "disc_suruga"
                        [] pc = "wait_resume" -> "disc_exfo",
            ![t].status = IF pc \in {"created", "conn_suruga", "send", "disc_suruga"}
                          THEN "cancelled" ELSE "pending"]
    /\ subs' = IF tasks[t].pc = "send" THEN NoBroadcast ELSE subs
    /\ UNCHANGED <<controller, task, ctls, connections, canceller, lastStart, now, smVars, hwVars>>

\* every step of task t
TaskStep(t) ==
    \/ TaskStart(t)
    \/ BroadcastStep(t)
    \/ \E ok \in BOOLEAN : SendReturn(t, ok)
    \/ EnterSuruga(t)
    \/ \E ok \in BOOLEAN : SurugaConnected(t, ok)
    \/ \E ok \in BOOLEAN : ExfoConnected(t, ok)
    \/ LoopHead(t)
    \/ PauseWait(t)
    \/ ResumeWake(t)
    \/ ProcessDevice(t)
    \/ DeviceStarted(t)
    \/ DeviceMoving(t)
    \/ DeviceCompleted(t)
    \/ ExitWith(t)
    \/ ExfoClosed(t)
    \/ SurugaClosed(t)
    \/ Cancelled(t)

\* =========================================================================
\* hardware/suruga_seiki.py: the helper methods of SurugaSeikiClient
\* =========================================================================

\* axis numbers handed to the helpers
Axes == 1..2

\* threshold_voltage, in the unit the sensor voltages are counted in
Threshold == 1

\* voltages the contact sensor may read
Voltages == 0..MaxVolt

\* a call of a client method: the request it stands for
ClientCall(op, axis, arg) == [op |-> op, axis |-> axis, arg |-> arg]

\* no helper has been called yet
HWIdle ==
    [fn |-> "none",
     pc |-> "idle",
     cancel |-> FALSE,
     calls |-> <<>>,
     resp |-> <<>>,
     pos |-> [a \in Axes |-> 0],
     z_axis |-> 1,
     x_axis |-> 2,
     dist |-> 0,
     target |-> 0,
     max_steps |-> 0,
     start_z |-> 0,
     current_z |-> 0,
     step |-> 0,
     reads |-> <<>>,
     result |-> Err("none")]

\* the helper awaits a client method: the request goes out
Issue(h, call, pc) == [h EXCEPT !.calls = Append(@, call), !.pc = pc]

\* the client method returned ok or an Err
Answered(h, ok) == [h EXCEPT !.resp = Append(@, ok)]

\* `return result`
Return(h, result) == [h EXCEPT !.pc = "returned", !.result = result]

\* the axis after a move request: a request that succeeded has moved it, one
\* that failed has moved it or not
Moved(h, axis, to, ok, moved) ==
    IF ok \/ moved THEN [h EXCEPT !.pos[axis] = to] ELSE h

\* cancel_event.set() by whoever holds the event, while the helper awaits
HWCancel ==
    /\ hw.pc \notin {"idle", "returned"}
    /\ ~hw.cancel
    /\ hw' = [hw EXCEPT !.cancel = TRUE]
    /\ UNCHANGED <<now, smVars, mgrVars>>

\* ------------------------------------------------- safe_z_retract_and_move

\* the call up to its first await: the cancellation check, then the read of
\* the Z position; p are the axis positions at that moment
safe_z_retract_and_move(z_axis, x_axis, retract_distance_um, target_x_position_um, cancelled, p) ==
    /\ hw.pc \in {"idle", "returned"}
    /\ LET h == [HWIdle EXCEPT !.fn = "safe",
                               !.cancel = cancelled,
                               !.pos = p,
                               !.z_axis = z_axis,
                               !.x_axis = x_axis,
                               !.dist = retract_distance_um,
                               !.target = target_x_position_um,
                               !.start_z = p[z_axis]]
       IN hw' = IF cancelled
                THEN Return(h, Err("Operation cancelled"))
                ELSE Issue(h, ClientCall("get_position", z_axis, 0), "get_z")
    /\ UNCHANGED <<now, smVars, mgrVars>>

\* self._get(f"/position/{z_axis}") returns; then move_relative is awaited
GetZReturn(ok) ==
    /\ hw.pc = "get_z"
    /\ LET h == Answered(hw, ok)
       IN hw' = IF ~ok
                THEN Return(h, Err("Failed to get Z position"))
                ELSE Issue([h EXCEPT !.current_z = hw.pos[hw.z_axis]],
                           ClientCall("move_relative", hw.z_axis, 0 - hw.dist),
                           "retract")
    /\ UNCHANGED <<now, smVars, mgrVars>>

\* move_relative(z_axis, -retract_distance_um, speed) returns; then the
\* settle sleep is awaited
RetractReturn(ok, moved) ==
    /\ hw.pc = "retract"
    /\ LET h == Moved(Answered(hw, ok), hw.z_axis, hw.pos[hw.z_axis] - hw.dist, ok, moved)
       IN hw' = IF ~ok
                THEN Return(h, Err("Failed to retract Z"))
                ELSE [h EXCEPT !.pc = "settle1"]
    /\ UNCHANGED <<now, smVars, mgrVars>>

\* a mutant of Settle1Done: the cancellation check after the retract is
\* left out
Settle1Done_NoCheck ==
    /\ hw.pc = "settle1"
    /\ hw' = Issue(hw, ClientCall("move_absolute", hw.x_axis, hw.target), "move_x")
    /\ UNCHANGED <<now, smVars, mgrVars>>

\* asyncio.sleep(0.2) after the retract is over: the cancellation check, then
\* move_absolute of X is awaited
Settle1Done ==
    /\ hw.pc = "settle1"
    /\ hw' = IF hw.cancel
             THEN Return(hw, Err("Operation cancelled"))
             ELSE Issue(hw, ClientCall("move_absolute", hw.x_axis, hw.target), "move_x")
    /\ UNCHANGED <<now, smVars, mgrVars>>

\* a mutant of MoveXReturn: a failed move of X is not looked at
MoveXReturn_IgnoreErr(ok, moved) ==
    /\ hw.pc = "move_x"
    /\ hw' = [Moved(Answered(hw, ok), hw.x_axis, hw.target, ok, moved)
                EXCEPT !.pc = "settle2"]
    /\ UNCHANGED <<now, smVars, mgrVars>>

\* move_absolute(x_axis, target_x_position_um, speed) returns
MoveXReturn(ok, moved) ==
    /\ hw.pc = "move_x"
    /\ LET h == Moved(Answered(hw, ok), hw.x_axis, hw.target, ok, moved)
       IN hw' = IF ~ok
                THEN Return(h, Err("Failed to move X"))
                ELSE [h EXCEPT !.pc = "settle2"]
    /\ UNCHANGED <<now, smVars, mgrVars>>

\* a mutant of Settle2Done: Z is sent back to where the retract left it
Settle2Done_ToRetracted ==
    /\ hw.pc = "settle2"
    /\ hw' = IF hw.cancel
             THEN Return(hw, Err("Operation cancelled"))
             ELSE Issue(hw, ClientCall("move_absolute", hw.z_axis, hw.current_z - hw.dist),
                        "extend")
    /\ UNCHANGED <<now, smVars, mgrVars>>

\* asyncio.sleep(0.2) after the move of X is over: the cancellation check,
\* then move_absolute of Z to current_z is awaited
Settle2Done ==
    /\ hw.pc = "settle2"
    /\ hw' = IF hw.cancel
             THEN Return(hw, Err("Operation cancelled"))
             ELSE Issue(hw, ClientCall("move_absolute", hw.z_axis, hw.current_z), "extend")
    /\ UNCHANGED <<now, smVars, mgrVars>>

\* move_absolute(z_axis, current_z, speed) returns
ExtendReturn(ok, moved) ==
    /\ hw.pc = "extend"
    /\ LET h == Moved(Answered(hw, ok), hw.z_axis, hw.current_z, ok, moved)
       IN hw' = IF ~ok
                THEN Return(h, Err("Failed to extend Z"))
                ELSE [h EXCEPT !.pc = "settle3"]
    /\ UNCHANGED <<now, smVars, mgrVars>>

\* the last asyncio.sleep(0.2) is over: return Ok(None)
Settle3Done ==
    /\ hw.pc = "settle3"
    /\ hw' = Return(hw, Ok(NoneStr))
    /\ UNCHANGED <<now, smVars, mgrVars>>

\* ----------------------------------------------- check_contact_and_retract

\* a mutant of RetractLoop: the cancellation flag is not looked at
RetractLoop_NoCancel(h) ==
    IF h.step >= h.max_steps
    THEN Return(h, Err("Contact persisted"))
    ELSE Issue(h, ClientCall("move_relative", h.z_axis, 0 - h.dist), "c_retract")

\* a mutant of RetractLoop: the loop runs once more than max_retract_steps
RetractLoop_OneMore(h) ==
    IF h.step > h.max_steps
    THEN Return(h, Err("Contact persisted"))
    ELSE IF h.cancel
         THEN Return(h, Err("Operation cancelled during contact retraction"))
         ELSE Issue(h, ClientCall("move_relative", h.z_axis, 0 - h.dist), "c_retract")

\* the head of `for step in range(max_retract_steps)` with the body up to its
\* first await; h.step is the number of steps done
RetractLoop(h) ==
    IF h.step >= h.max_steps
    THEN Return(h, Err("Contact persisted"))
    ELSE IF h.cancel
         THEN Return(h, Err("Operation cancelled during contact retraction"))
         ELSE Issue(h, ClientCall("move_relative", h.z_axis, 0 - h.dist), "c_retract")

\* the call up to its first await: get_analog_input(contact_channel)
check_contact_and_retract(z_axis, retract_step_um, max_retract_steps, cancelled, p) ==
    /\ hw.pc \in {"idle", "returned"}
    /\ hw' = Issue([HWIdle EXCEPT !.fn = "contact",
                                  !.cancel = cancelled,
                                  !.pos = p,
                                  !.z_axis = z_axis,
                                  !.dist = retract_step_um,
                                  !.max_steps = max_retract_steps,
                                  !.start_z = p[z_axis]],
                   ClientCall("get_analog_input", 0, 0), "read0")
    /\ UNCHANGED <<now, smVars, mgrVars>>

\* a mutant of InitialReadReturn: the sensor is compared with >=, so a
\* reading at the threshold counts as contact
InitialReadReturn_AtThreshold(ok, voltage) ==
    /\ hw.pc = "read0"
    /\ LET h == Answered(hw, ok)
       IN hw' = IF ~ok
                THEN Return(h, Err("Failed to read contact sensor"))
                ELSE LET r == [h EXCEPT !.reads = Append(@, voltage)]
                     IN IF voltage >= Threshold
                        THEN RetractLoop(r)
                        ELSE Return(r, Ok("False"))
    /\ UNCHANGED <<now, smVars, mgrVars>>

\* the first get_analog_input returns
InitialReadReturn(ok, voltage) ==
    /\ hw.pc = "read0"
    /\ LET h == Answered(hw, ok)
       IN hw' = IF ~ok
                THEN Return(h, Err("Failed to read contact sensor"))
                ELSE LET r == [h EXCEPT !.reads = Append(@, voltage)]
                     IN IF voltage > Threshold
                        THEN RetractLoop(r)
                        ELSE Return(r, Ok("False"))
    /\ UNCHANGED <<now, smVars, mgrVars>>

\* move_relative(z_axis, -retract_step_um, speed) of a step returns; then
\* asyncio.sleep(0.1) is awaited
StepRetractReturn(ok, moved) ==
    /\ hw.pc = "c_retract"
    /\ LET h == Moved(Answered(hw, ok), hw.z_axis, hw.pos[hw.z_axis] - hw.dist, ok, moved)
       IN hw' = IF ~ok
                THEN Return(h, Err("Failed to retract Z at step"))
                ELSE [h EXCEPT !.pc = "c_sleep"]
    /\ UNCHANGED <<now, smVars, mgrVars>>

\* asyncio.sleep(0.1) is over: get_analog_input is awaited again
StepSleepDone ==
    /\ hw.pc = "c_sleep"
    /\ hw' = Issue(hw, ClientCall("get_analog_input", 0, 0), "c_read")
    /\ UNCHANGED <<now, smVars, mgrVars>>

\* the get_analog_input of a step returns: contact cleared, or the next step
StepReadReturn(ok, voltage) ==
    /\ hw.pc = "c_read"
    /\ LET h == Answered(hw, ok)
       IN hw' = IF ~ok
                THEN Return(h, Err("Failed to read contact sensor after retraction"))
                ELSE LET r == [h EXCEPT !.reads = Append(@, voltage)]
                     IN IF voltage <= Threshold
                        THEN Return(r, Ok("True"))
                        ELSE RetractLoop([r EXCEPT !.step = @ + 1])
    /\ UNCHANGED <<now, smVars, mgrVars>>

\* ------------------------------------------------- a second call of run()

\* _run_with_broadcasting is run once more after the manager's task has
\* ended, with self.controller still the controller of the first run, whose
\* run() has applied StartMeasurement: run() is called on it a second time
RunAgain ==
    /\ LoopIdle
    /\ canceller.pc = "idle"
    /\ task # 0
    /\ controller # 0
    /\ tasks[task].status \in {"done", "cancelled"}
    /\ tasks[task].ctl = controller
    /\ ctls[controller].state.status # "idle"
    /\ Len(SelectSeq(ctls[controller].events, LAMBDA e : e.kind = "measurement_started")) = 1
    /\ tasks' = [tasks EXCEPT ![task] = NewTask]
    /\ UNCHANGED <<controller, task, ctls, connections, canceller, lastStart, now, subs, smVars, hwVars>>

\* =========================================================================
\* specifications
\* =========================================================================

Init ==
    /\ now = 1
    /\ sm = initial_state(1)
    /\ smPrev = "idle"
    /\ smEv = UnknownEvent
    /\ smRes = "none"
    /\ smRepeat = FALSE
    /\ controller = 0
    /\ task = 0
    /\ ctls = <<>>
    /\ tasks = <<>>
    /\ connections = <<>>
    /\ subs = NoBroadcast
    /\ canceller = [pc |-> "idle", target |-> 0, blocked |-> 0]
    /\ lastStart = "none"
    /\ hw = HWIdle

Next ==
    \/ \E n \in 0..MaxDevices : Start(n)
    \/ Pause
    \/ Resume
    \/ CancelCall
    \/ CancelTimeout
    \/ CancelWake
    \/ \E s \in 1..NumSubs : Connect(s)
    \/ \E s \in 1..NumSubs : Disconnect(s)
    \/ \E t \in 1..MaxRuns : TaskStep(t)

\* the manager, its controllers and the websocket clients
Spec == Init /\ [][Next]_vars

\* the event loop runs every task that can run, and every hardware call and
\* every send returns
FairSpec == Spec /\ \A t \in 1..MaxRuns : WF_vars(TaskStep(t))

\* FairSpec, and the timer of asyncio.wait_for fires and the event loop
\* resumes cancel() once the task it awaits is done
CancelSpec ==
    /\ FairSpec
    /\ WF_vars(CancelTimeout)
    /\ WF_vars(CancelWake)

Positions == [Axes -> 0..MaxPos]

HWNext ==
    \/ \E z \in Axes, x \in Axes, d \in 1..MaxDist, target \in 0..MaxPos,
          cancelled \in BOOLEAN, p \in Positions :
            safe_z_retract_and_move(z, x, d, target, cancelled, p)
    \/ \E ok \in BOOLEAN : GetZReturn(ok)
    \/ \E ok \in BOOLEAN, moved \in BOOLEAN : RetractReturn(ok, moved)
    \/ Settle1Done
    \/ \E ok \in BOOLEAN, moved \in BOOLEAN : MoveXReturn(ok, moved)
    \/ Settle2Done
    \/ \E ok \in BOOLEAN, moved \in BOOLEAN : ExtendReturn(ok, moved)
    \/ Settle3Done
    \/ \E z \in Axes, d \in 1..MaxDist, n \in 0..MaxSteps, cancelled \in BOOLEAN,
          p \in Positions :
            check_contact_and_retract(z, d, n, cancelled, p)
    \/ \E ok \in BOOLEAN, v \in Voltages : InitialReadReturn(ok, v)
    \/ \E ok \in BOOLEAN, moved \in BOOLEAN : StepRetractReturn(ok, moved)
    \/ StepSleepDone
    \/ \E ok \in BOOLEAN, v \in Voltages : StepReadReturn(ok, v)
    \/ HWCancel

\* the helpers of the Suruga client against hardware that answers as it likes
HWSpec == Init /\ [][HWNext]_vars

SMNext ==
    \/ \E ev \in SMEvents : Apply(ev)
    \/ Tick

\* the state machine alone, fed every event
SMSpec == Init /\ [][SMNext]_vars

WSNext ==
    \/ \E n \in 0..WSDevices : Start(n)
    \/ Pause
    \/ Resume
    \/ CancelCall
    \/ CancelTimeout
    \/ CancelWake
    \/ \E s \in 1..WSSubs : Connect(s)
    \/ \E s \in 1..WSSubs : Disconnect(s)
    \/ \E t \in 1..MaxRuns : TaskStep(t)

\* short runs broadcast to several websocket clients
WSSpec == Init /\ [][WSNext]_vars

RerunNext ==
    \/ \E n \in 0..WSDevices : Start(n)
    \/ Pause
    \/ Resume
    \/ CancelCall
    \/ CancelTimeout
    \/ CancelWake
    \/ \E s \in 1..NumSubs : Connect(s)
    \/ \E s \in 1..NumSubs : Disconnect(s)
    \/ \E t \in 1..MaxRuns : TaskStep(t)
    \/ RunAgain

\* short runs, and run() called a second time on the controller of a run
\* that has ended
RerunSpec == Init /\ [][RerunNext]_vars

\* =========================================================================
\* properties
\* =========================================================================

IsPrefix(a, b) == Len(a) <= Len(b) /\ SubSeq(b, 1, Len(a)) = a

Last(q) == q[Len(q)]

CtlIds == 1..Len(ctls)

\* the background task of run t has not finished
Unfinished(t) == t \in TaskIds /\ tasks[t].status = "pending"

\* run t's task has finished, normally or cancelled
Finished(t) == t \in TaskIds /\ tasks[t].status \in {"done", "cancelled"}

\* the last event of run c is a terminal event
EndsTerminal(c) ==
    /\ Events(c) # <<>>
    /\ Last(Events(c)).kind \in TerminalKinds

\* C1: under every interleaving of start, pause, resume and cancel calls at
\* most one background task is unfinished at any time.
C1_SingleActiveRun == Cardinality({t \in TaskIds : Unfinished(t)}) <= 1

\* C1 witness: a second run is under way after the first has finished, and
\* a start() made meanwhile was refused
C1_Witness ==
    /\ Len(tasks) = 2
    /\ ~Unfinished(1)
    /\ Unfinished(2)
    /\ tasks[2].pc = "send"
    /\ lastStart = "error"

\* C2: while the manager's task has not finished (also while it is blocked
\* at a pause checkpoint) no step replaces the manager's controller or task,
\* and a start() call ends in the "already running" error and changes no
\* controller, no task and no state.
C2_StartWhileRunningRejected ==
    [][(task # 0 /\ tasks[task].status = "pending")
        => /\ controller' = controller
           /\ task' = task
           /\ (lastStart' # lastStart
                 => lastStart' = "error" /\ ctls' = ctls /\ tasks' = tasks)]_vars

\* C2 witness: start() was refused and the run is blocked at a pause checkpoint
C2_Witness ==
    /\ lastStart = "error"
    /\ task # 0
    /\ tasks[task].status = "pending"
    /\ tasks[task].pc = "wait_resume"

C4_Original == \A t \in TaskIds : Finished(t) => EndsTerminal(t)

\* C5 (as claimed): if pause() is never signaled, a started run emits a
\* terminal event and its background task finishes; so a task that has
\* finished with pause() never signaled has emitted its terminal event.
C5_Original ==
    \A t \in TaskIds :
        (Finished(t) /\ ~ctls[t].pause_event) => EndsTerminal(t)

\* the events of a run cancelled before its first device
CancelledAtOnce == <<Entry("measurement_started", NoneNum), Entry("measurement_cancelled", 0)>>

\* cancel() was signaled before the loop reached its first checkpoint: the
\* flag is set and nothing but measurement_started has been yielded, or the
\* first checkpoint has already answered with measurement_cancelled
CancelledBeforeDevices(c) ==
    /\ ctls[c].cancel_event
    /\ IsPrefix(Events(c), CancelledAtOnce)

\* the run of controller c goes on as a run cancelled before its first device
StaysCancelledAtOnce(c) ==
    \/ tasks'[c].status = "dropped"
    \/ /\ IsPrefix(ctls'[c].events, CancelledAtOnce)
       /\ tasks'[c].status = "done" => ctls'[c].events = CancelledAtOnce

C7Next(e) ==
    CASE e = Entry("device_started", 0) -> Entry("device_moving", 0)
      [] e = Entry("device_moving", 0) -> Entry("device_completed", 0)
      [] e = Entry("device_completed", 0) -> Entry("measurement_paused", 1)
      [] e = Entry("measurement_paused", 1) -> Entry("measurement_resumed", 1)
      [] e = Entry("measurement_resumed", 1) -> Entry("device_started", 1)
      [] e = Entry("device_started", 1) -> Entry("device_moving", 1)
      [] e = Entry("device_moving", 1) -> Entry("device_completed", 1)
      [] OTHER -> Entry("none", NoneNum)

\* C7: in a 3-device run with pause() signaled while device 0 is processed
\* (and no cancel()), each event that run() yields next is the one the order
\* above names: device_completed(0), measurement_paused, measurement_resumed,
\* then device_started, device_moving, device_completed of device 1.
C7_PauseThenResumeOrder ==
    [][\A c \in CtlIds :
        (/\ ctls[c].n = 3
         /\ ctls[c].pause_event
         /\ ~ctls[c].cancel_event
         /\ Events(c) # <<>>
         /\ C7Next(Last(Events(c))).kind # "none"
         /\ Len(ctls'[c].events) > Len(Events(c)))
        => ctls'[c].events = Append(Events(c), C7Next(Last(Events(c))))]_vars

\* C7 witness: the whole sequence has been yielded; the first pause was
\* observed at device 1, so pause() came while device 0 was processed
C7_Witness ==
    \E c \in CtlIds :
        /\ ctls[c].n = 3
        /\ Len(Events(c)) >= 9
        /\ SubSeq(Events(c), 1, 9) =
             <<Entry("measurement_started", NoneNum),
               Entry("device_started", 0), Entry("device_moving", 0),
               Entry("device_completed", 0),
               Entry("measurement_paused", 1), Entry("measurement_resumed", 1),
               Entry("device_started", 1), Entry("device_moving", 1),
               Entry("device_completed", 1)>>

\* what follows event e of device k's pipeline once cancel() is signaled
C8Next(e) ==
    CASE e.kind = "device_started" -> Entry("device_moving", e.dev)
      [] e.kind = "device_moving" -> Entry("device_completed", e.dev)
      [] e.kind = "device_completed" -> Entry("measurement_cancelled", e.dev + 1)

\* C8: with cancel() signaled while the pipeline of device k, not the last,
\* is in progress, the events that follow are the rest of that pipeline up to
\* device_completed and then measurement_cancelled: no later device starts.
C8_CancelIsCooperative ==
    [][\A c \in CtlIds :
        (/\ ctls[c].cancel_event
         /\ Events(c) # <<>>
         /\ Last(Events(c)).kind \in {"device_started", "device_moving", "device_completed"}
         /\ Last(Events(c)).dev < ctls[c].n - 1
         /\ Len(ctls'[c].events) > Len(Events(c)))
        => ctls'[c].events = Append(Events(c), C8Next(Last(Events(c))))]_vars

\* C8 witness: cancel() came during device 0 of at least two; device 0 was
\* completed and the run was cancelled at the checkpoint of device 1
C8_Witness ==
    \E c \in CtlIds :
        /\ ctls[c].n >= 2
        /\ ctls[c].cancel_event
        /\ Events(c) =
             <<Entry("measurement_started", NoneNum),
               Entry("device_started", 0), Entry("device_moving", 0),
               Entry("device_completed", 0), Entry("measurement_cancelled", 1)>>

\* run t is blocked at a pause checkpoint and resume() has been called
ResumeCalledWhileBlocked(t) ==
    /\ Unfinished(t)
    /\ tasks[t].pc = "wait_resume"
    /\ ctls[t].resume_event

\* run t has just yielded measurement_resumed and then device_started for
\* the device of its checkpoint (the loop index does not move in between)
ResumedInto(t) ==
    /\ t \in TaskIds
    /\ Len(Events(t)) >= 2
    /\ Events(t)[Len(Events(t)) - 1] = Entry("measurement_resumed", tasks[t].dev)
    /\ Events(t)[Len(Events(t))] = Entry("device_started", tasks[t].dev)

\* C9 (as claimed): whenever the controller is blocked at a pause checkpoint
\* and resume() is called, it eventually emits measurement_resumed and goes
\* on to process the device of that checkpoint.
C9_Original ==
    \A t \in 1..MaxRuns : ResumeCalledWhileBlocked(t) ~> ResumedInto(t)

\* C9 (amended): the same, unless the background task is cancelled first
\* (MeasurementManager.cancel() ran into its timeout).
C9_ResumeReleases ==
    \A t \in 1..MaxRuns :
        ResumeCalledWhileBlocked(t)
            ~> (ResumedInto(t) \/ (t \in TaskIds /\ tasks[t].exc))

\* C9 witness: a run that was blocked at device 1 has been resumed into it
C9_Witness ==
    \E t \in TaskIds :
        /\ ~tasks[t].exc
        /\ tasks[t].dev = 1
        /\ ResumedInto(t)

\* the transition table of the design: the status an accepted event leads
\* to, "rejected" for every other pair
TransitionTable(status, kind) ==
    CASE kind = "StartMeasurement" /\ status = "idle" -> "calibrating"
      [] kind = "CompleteCalibration" /\ status = "calibrating" -> "calibrating"
      [] kind = "CompleteChipAngleCalibration" /\ status = "calibrating" -> "running"
      [] kind = "StartDevice" /\ status \in {"calibrating", "running"} -> "running"
      [] kind = "UpdateOperation" /\ status \in {"calibrating", "running"} -> status
      [] kind = "RecordPower" /\ status \in {"running", "paused"} -> status
      [] kind = "CompleteDevice" /\ status = "running" -> status
      [] kind = "PauseMeasurement" /\ status = "running" -> "paused"
      [] kind = "ResumeMeasurement" /\ status = "paused" -> "running"
      [] kind = "CancelMeasurement" /\ status \in {"running", "paused"} -> "cancelled"
      [] kind = "CompleteMeasurement" /\ status = "running" -> "completed"
      [] kind = "FailMeasurement" /\ status \in {"idle", "calibrating", "running", "paused"}
            -> "failed"
      [] OTHER -> "rejected"

\* C10: for every status and every event kind transition returns Ok with
\* exactly the status of the transition table, and Err for every pair the
\* table does not list.
C10_TransitionTable ==
    smRes # "none" =>
        IF TransitionTable(smPrev, smEv.kind) = "rejected"
        THEN smRes = "err" /\ sm.status = smPrev
        ELSE smRes = "ok" /\ sm.status = TransitionTable(smPrev, smEv.kind)

\* C10 witness: a paused measurement was cancelled
C10_Witness ==
    /\ smRes = "ok"
    /\ smPrev = "paused"
    /\ smEv.kind = "CancelMeasurement"
    /\ sm.status = "cancelled"

\* the latest step called transition(): it changed the caller's record of
\* the call or the state
Called == <<sm, smEv, smRes>>' # <<sm, smEv, smRes>>

\* C11: for every (status, event) pair the transition table marks invalid,
\* transition returns an error and no field of the caller's state changes.
C11_RejectedLeavesState ==
    [][TransitionTable(sm.status, smEv'.kind) = "rejected"
        => /\ sm' = sm
           /\ Called => smRes' = "err"]_vars

\* C11 witness: a pause was rejected in a paused state that holds readings
C11_Witness ==
    /\ smRes = "err"
    /\ smEv.kind = "PauseMeasurement"
    /\ sm.status = "paused"
    /\ successful_devices(sm) >= 1

\* C12: terminal states are absorbing: once the status is completed, failed
\* or cancelled every event is rejected and the state stays as it is.
C12_TerminalAbsorbing ==
    [][is_terminal(sm)
        => /\ sm' = sm
           /\ Called => smRes' = "err"]_vars

\* C12 witness: FailMeasurement was rejected in a completed state
C12_Witness ==
    /\ sm.status = "completed"
    /\ smEv.kind = "FailMeasurement"
    /\ smRes = "err"

\* a state without its timestamp
NoTimestamp(state) == [state EXCEPT !.timestamp = 0]

\* C13: RecordPower is idempotent per (device, stage): when an accepted
\* RecordPower is applied once more it is accepted and leaves every field
\* but the timestamp as the first application left it.
C13_RecordPowerIdempotent ==
    [][(smEv.kind = "RecordPower" /\ smRes = "ok" /\ smEv' = smEv)
        => /\ smRes' = "ok"
           /\ NoTimestamp(sm') = NoTimestamp(sm)]_vars

\* C13 witness: the same RecordPower was applied twice in a row, at
\* different times, next to another stage's reading
C13_Witness ==
    /\ smRepeat
    /\ smRes = "ok"
    /\ smEv = RecordPower(0, "left", 1)
    /\ sm.timestamp = MaxClock
    /\ DOMAIN sm.power_readings[0] = Stages

\* the stage-value pairs of device d in the readings
ReadingsOf(readings, d) ==
    IF d \in DOMAIN readings
    THEN {<<st, readings[d][st]>> : st \in DOMAIN readings[d]}
    ELSE {}

\* C14: an accepted RecordPower(device, stage, value) sets
\* power_readings[device][stage] and nothing else: the other stages of the
\* device and the readings of the other devices are kept, and no field but
\* power_readings and the timestamp changes.
C14_RecordPowerFrame ==
    [][(smEv'.kind = "RecordPower" /\ is_active(sm) /\ Called)
        => LET e == smEv'
           IN /\ smRes' = "ok"
              /\ ReadingsOf(sm'.power_readings, e.device_index)
                   = {r \in ReadingsOf(sm.power_readings, e.device_index) : r[1] # e.stage}
                       \cup {<<e.stage, e.power_dbm>>}
              /\ \A d \in (DOMAIN sm.power_readings \cup DOMAIN sm'.power_readings)
                              \ {e.device_index} :
                    /\ d \in DOMAIN sm.power_readings
                    /\ d \in DOMAIN sm'.power_readings
                    /\ sm'.power_readings[d] = sm.power_readings[d]
              /\ [sm' EXCEPT !.power_readings = EmptyDict, !.timestamp = 0]
                   = [sm EXCEPT !.power_readings = EmptyDict, !.timestamp = 0]]_vars

\* C14 witness: a reading was recorded for device 1 while its other stage
\* and a reading of device 0 were there
C14_Witness ==
    /\ smRes = "ok"
    /\ smEv = RecordPower(1, "right", 1)
    /\ ~smRepeat
    /\ 0 \in DOMAIN sm.power_readings
    /\ 1 \in DOMAIN sm.power_readings
    /\ DOMAIN sm.power_readings[1] = Stages
    /\ DOMAIN sm.power_readings[0] = {"left"}

\* device d has a stage recorded
HasReading(state, d) ==
    /\ d \in DOMAIN state.power_readings
    /\ \E st \in Stages : st \in DOMAIN state.power_readings[d]

\* C15: through every sequence of events successful_devices is the number
\* of devices with a non-empty stage mapping, and a device has one exactly
\* from the first RecordPower accepted for it.
C15_SuccessfulDevicesCount ==
    [][/\ \A d \in 0..(SMDevices - 1) :
            HasReading(sm', d)
              <=> \/ HasReading(sm, d)
                  \/ /\ smEv'.kind = "RecordPower"
                     /\ smEv'.device_index = d
                     /\ is_active(sm)
                     /\ Called
       /\ successful_devices(sm')
            = Cardinality({d \in 0..(SMDevices - 1) : HasReading(sm', d)})]_vars

\* C15 witness: two devices have readings, device 0 for both stages, and
\* StartDevice has been applied since
C15_Witness ==
    /\ successful_devices(sm) = 2
    /\ DOMAIN sm.power_readings[0] = Stages
    /\ smEv.kind = "StartDevice"
    /\ smRes = "ok"

\* the events of a run that aborts when a hardware connection fails
AbortedAtConnect == <<Entry("measurement_started", NoneNum), Entry("measurement_failed", NoneNum)>>

\* a client of run c is open and its connect() has reported a failure
ConnectFailed(c) ==
    \/ /\ ctls[c].suruga = "open"
       /\ ctls[c].exfo # "none"
       /\ ~ctls[c].suruga_connected
    \/ /\ ctls[c].exfo = "open"
       /\ tasks[c].pc \notin {"conn_exfo", "disc_exfo", "disc_suruga", "finished"}
       /\ ~ctls[c].exfo_connected

\* C16 (as claimed): when connecting to either hardware service fails, run()
\* aborts: its events are measurement_started, then measurement_failed, and
\* no device-level event.
C16_Original ==
    \A c \in CtlIds : ConnectFailed(c) => IsPrefix(Events(c), AbortedAtConnect)

\* task t has gone through the whole list of a broadcast
BroadcastDone(t) ==
    /\ tasks[t].status = "pending"
    /\ tasks[t].pc = "bcast"
    /\ tasks[t].bi >= Len(connections)

\* websocket s was registered when the broadcast began, is registered still
\* and no send to it has failed
StayedRegistered(t, s) ==
    /\ subs[s].early
    /\ InList(s, connections)
    /\ ~InList(s, tasks[t].failed)

\* C18 (as claimed): when sending an event to a subscriber fails, every
\* other registered subscriber still receives that event.
C18_Original ==
    \A t \in TaskIds :
        (BroadcastDone(t) /\ tasks[t].failed # <<>>)
            => \A s \in SubIds : StayedRegistered(t, s) => subs[s].got

\* task t's send to websocket s returns without an error in this step
Sent(t, s) ==
    /\ t \in TaskIds
    /\ tasks[t].pc = "send"
    /\ tasks[t].cur = s
    /\ tasks'[t].pc = "bcast"
    /\ tasks'[t].failed = tasks[t].failed

\* the event task t is broadcasting is the latest event any run has yielded
LatestEvent(t) ==
    /\ tasks[t].ctl \in CtlIds
    /\ Events(tasks[t].ctl) # <<>>
    /\ \A c \in CtlIds : c > tasks[t].ctl => Events(c) = <<>>

\* C19 (as claimed): a subscriber receives events in the order they were
\* produced, and never an event produced before it connected.
C19_Original ==
    [][\A t \in 1..MaxRuns : \A s \in SubIds :
        Sent(t, s) => /\ LatestEvent(t)
                      /\ ~subs[s].got
                      /\ subs[s].early]_vars

\* C20 (as claimed): every event is forwarded to all registered subscribers:
\* one registered before the broadcast starts, registered throughout and
\* with no failing send has received the event when the broadcast is over,
\* whatever other subscribers connect or disconnect meanwhile.
C20_Original ==
    \A t \in TaskIds :
        BroadcastDone(t) => \A s \in SubIds : StayedRegistered(t, s) => subs[s].got

\* ---------------------------------------------------------------- C21
\* C21: a call of MeasurementManager.cancel() that has started waiting for
\* the background task returns: the task ends by itself, or the timeout
\* cancels it, also when it is blocked at a pause checkpoint and resume()
\* is never called.
C21_CancelReturns == (canceller.pc # "idle") ~> (canceller.pc = "idle")

\* cancel() timed out on a task that was blocked at its pause checkpoint,
\* resume() was never called, and the task is done: cancel() returns next
C21_Witness ==
    /\ canceller.pc = "timedout"
    /\ tasks[canceller.target].status = "cancelled"
    /\ tasks[canceller.target].ctl # 0
    /\ LET c == ctls[tasks[canceller.target].ctl]
       IN /\ c.pause_event
          /\ ~c.resume_event
          /\ Len(c.events) > 0
          /\ Last(c.events).kind = "measurement_paused"

\* ---------------------------------------------------------------- C22
\* the retraction (move_relative) calls made so far
Retractions == Len(SelectSeq(hw.calls, LAMBDA c : c.op = "move_relative"))

\* check_contact_and_retract has returned and its first read was a contact
ContactReturned ==
    /\ hw.fn = "contact"
    /\ hw.pc = "returned"
    /\ Len(hw.reads) > 0
    /\ hw.reads[1] > Threshold

\* the sensor read at or below the threshold for the first time after the
\* k-th retraction
ClearedAfter(k) ==
    /\ Len(hw.reads) >= k + 1
    /\ hw.reads[k + 1] <= Threshold
    /\ \A j \in 1..k : hw.reads[j] > Threshold

\* no read of the sensor was at or below the threshold
NeverCleared == \A j \in 1..Len(hw.reads) : hw.reads[j] > Threshold

C23_NoContactNoMotion ==
    (/\ hw.fn = "contact"
     /\ Len(hw.reads) > 0
     /\ hw.reads[1] <= Threshold)
        => /\ hw.pc = "returned"
           /\ hw.result = Ok("False")
           /\ hw.calls = <<ClientCall("get_analog_input", 0, 0)>>

\* the first read was exactly the threshold, with the cancellation flag set
\* and steps allowed
C23_Witness ==
    /\ hw.fn = "contact"
    /\ hw.pc = "returned"
    /\ hw.reads = <<Threshold>>
    /\ hw.cancel
    /\ hw.max_steps = MaxSteps
    /\ hw.result = Ok("False")

\* ---------------------------------------------------------------- C24
\* the client calls of a whole safe_z_retract_and_move, in program order
SafeSequence ==
    <<ClientCall("get_position", hw.z_axis, 0),
      ClientCall("move_relative", hw.z_axis, 0 - hw.dist),
      ClientCall("move_absolute", hw.x_axis, hw.target),
      ClientCall("move_absolute", hw.z_axis, hw.current_z)>>

\* the error safe_z_retract_and_move returns when its i-th call fails
FailureOf(i) ==
    CASE i = 1 -> Err("Failed to get Z position")
      [] i = 2 -> Err("Failed to retract Z")
      [] i = 3 -> Err("Failed to move X")
      [] OTHER -> Err("Failed to extend Z")

\* C24: in safe_z_retract_and_move the first failing call ends the sequence:
\* the result is the error of that call, it is the last call made (no retry,
\* no later call), so no restore of Z follows a failed move of X.
C24_FirstFailureAborts ==
    hw.fn = "safe" =>
        /\ IsPrefix(hw.calls, SafeSequence)
        /\ \A i \in 1..Len(hw.resp) :
              ~hw.resp[i] => /\ i = Len(hw.calls)
                             /\ hw.pc = "returned"
                             /\ hw.result = FailureOf(i)

\* the move of X failed after the read and the retract went well
C24_Witness ==
    /\ hw.fn = "safe"
    /\ hw.pc = "returned"
    /\ hw.resp = <<TRUE, TRUE, FALSE>>
    /\ hw.result = Err("Failed to move X")
    /\ Len(hw.calls) = 3

\* ---------------------------------------------------------------- C25
\* safe_z_retract_and_move has returned Ok(None)
SafeSucceeded ==
    /\ hw.fn = "safe"
    /\ hw.pc = "returned"
    /\ hw.result = Ok(NoneStr)

\* C25: when safe_z_retract_and_move succeeds its calls were, in this order:
\* read the Z position, move Z by minus the retract distance, move X to the
\* target, move Z to the position it had before the retract; Z is there at
\* the end; and the move of X is never requested before the retract has
\* succeeded.
C25_SuccessOrder ==
    /\ SafeSucceeded =>
          /\ hw.calls = <<ClientCall("get_position", hw.z_axis, 0),
                          ClientCall("move_relative", hw.z_axis, 0 - hw.dist),
                          ClientCall("move_absolute", hw.x_axis, hw.target),
                          ClientCall("move_absolute", hw.z_axis, hw.start_z)>>
          /\ hw.pos[hw.z_axis] = hw.start_z
    /\ (hw.fn = "safe" /\ Len(hw.calls) >= 3) =>
          /\ hw.calls[2].op = "move_relative"
          /\ hw.resp[1]
          /\ hw.resp[2]

\* a successful call that started with Z away from zero and moved X
C25_Witness ==
    /\ SafeSucceeded
    /\ hw.z_axis # hw.x_axis
    /\ hw.start_z = MaxPos
    /\ hw.pos[hw.x_axis] = hw.target
    /\ hw.target = MaxPos

\* ---------------------------------------------------------------- C26
\* duration_seconds is None while started_at is unset, and does not decrease
\* from one observation to the next while the run is not terminal
DurationBeforeTerminal ==
    /\ sm'.started_at = NoneNum => duration_seconds(sm', now') = NoneNum
    /\ (/\ ~is_terminal(sm)
        /\ ~is_terminal(sm')
        /\ sm.started_at # NoneNum)
          => duration_seconds(sm', now') >= duration_seconds(sm, now)

\* C26 (as claimed): duration_seconds is None while started_at is unset, is
\* non-decreasing while the run is non-terminal, and in a terminal state it
\* equals completed_at - started_at at every observation.
C26_Original ==
    [][/\ DurationBeforeTerminal
       /\ is_terminal(sm') =>
             /\ sm'.started_at # NoneNum
             /\ duration_seconds(sm', now') = sm'.completed_at - sm'.started_at]_vars

\* C26 (amended): duration_seconds is None while started_at is unset, is
\* non-decreasing while the run is non-terminal, and in a terminal state
\* that a started run has entered it equals completed_at - started_at at
\* every observation; a run that failed from Idle never got a started_at and
\* its duration_seconds stays None.
C26_Duration ==
    [][/\ DurationBeforeTerminal
       /\ (is_terminal(sm') /\ sm'.started_at # NoneNum) =>
             duration_seconds(sm', now') = sm'.completed_at - sm'.started_at
       /\ is_terminal(sm) => duration_seconds(sm', now') = duration_seconds(sm, now)]_vars

\* a started run is terminal and is observed after the clock has moved on
C26_Witness ==
    /\ is_terminal(sm)
    /\ sm.started_at # NoneNum
    /\ now > sm.completed_at
    /\ duration_seconds(sm, now) = sm.completed_at - sm.started_at

\* ---------------------------------------------------------------- C27
\* C27: in every state reached from the initial state through transition,
\* completed_at is set exactly when the status is terminal, and a
\* completed_at that is set never changes.
C27_CompletedAtIffTerminal ==
    [][/\ (sm.completed_at # NoneNum) <=> is_terminal(sm)
       /\ (sm'.completed_at # NoneNum) <=> is_terminal(sm')
       /\ sm.completed_at # NoneNum => sm'.completed_at = sm.completed_at]_vars

\* a terminal state was handed a further event after the clock had moved on
C27_Witness ==
    /\ is_terminal(sm)
    /\ smPrev = sm.status
    /\ smRes = "err"
    /\ sm.completed_at # NoneNum
    /\ now > sm.completed_at

\* ---------------------------------------------------------------- C28
\* C28: in every state reached from the initial state through transition,
\* the error field is populated only when the status is Failed.
C28_ErrorOnlyWhenFailed == sm.error # NoneStr => sm.status = "failed"

\* a failed state carries the error of its FailMeasurement event
C28_Witness ==
    /\ sm.status = "failed"
    /\ sm.error = "boom"
    /\ smEv = FailMeasurement("boom")
    /\ smRes = "ok"

\* ---------------------------------------------------------------- C29
\* C29 (as claimed): once calibrated_setup_id, left_stage_angle or
\* right_stage_angle has a value, no later accepted event changes it.
C29_Original ==
    [][/\ sm.calibrated_setup_id # NoneNum =>
             sm'.calibrated_setup_id = sm.calibrated_setup_id
       /\ sm.left_stage_angle # NoneNum => sm'.left_stage_angle = sm.left_stage_angle
       /\ sm.right_stage_angle # NoneNum =>
             sm'.right_stage_angle = sm.right_stage_angle]_vars

\* ---------------------------------------------------------------- C30
\* safe_z_retract_and_move returns the cancellation error in this step and
\* requests nothing of the hardware
CancelledHere ==
    /\ hw'.pc = "returned"
    /\ hw'.result = Err("Operation cancelled")
    /\ hw'.calls = IF hw.pc \in {"idle", "returned"} THEN <<>> ELSE hw.calls

\* C30: safe_z_retract_and_move looks at the cancellation flag at three
\* checkpoints: set at entry, the call returns an error with no hardware
\* call; set when the settle after the retract ends, the move of X is not
\* requested; set when the settle after the move of X ends, the restore of
\* Z is not requested.
C30_CancelCheckpoints ==
    [][/\ (/\ hw.pc \in {"idle", "returned"}
           /\ hw' # hw
           /\ hw'.fn = "safe"
           /\ hw'.cancel) => CancelledHere
       /\ (/\ hw.fn = "safe"
           /\ hw.pc \in {"settle1", "settle2"}
           /\ hw.cancel
           /\ hw'.pc # hw.pc) => CancelledHere]_vars

\* the flag was set while the retract or its settle was awaited: the call
\* ended after two hardware calls
C30_Witness ==
    /\ hw.fn = "safe"
    /\ hw.pc = "returned"
    /\ hw.cancel
    /\ hw.resp = <<TRUE, TRUE>>
    /\ Len(hw.calls) = 2
    /\ hw.result = Err("Operation cancelled")

\* ---------------------------------------------------------------- C31
\* this step of check_contact_and_retract ends a sensor read that asks for
\* one more retraction step: the read went well, it is above the threshold
\* and fewer than max_retract_steps steps are done
StepAboutToBegin ==
    /\ hw.fn = "contact"
    /\ hw.pc \in {"read0", "c_read"}
    /\ hw'.pc # hw.pc
    /\ Last(hw'.resp)
    /\ Last(hw'.reads) > Threshold
    /\ hw'.step < hw'.max_steps

\* C31: check_contact_and_retract looks at the cancellation flag before
\* every retraction step: with the flag set when a step is about to begin no
\* further move_relative is requested and the result is the cancellation
\* error; and the retraction calls never number more than max_retract_steps.
C31_CancelBeforeEveryStep ==
    [][/\ (StepAboutToBegin /\ hw.cancel) =>
             /\ hw'.calls = hw.calls
             /\ hw'.pc = "returned"
             /\ hw'.result = Err("Operation cancelled during contact retraction")
       /\ hw'.fn = "contact" => Retractions' <= hw'.max_steps]_vars

\* the flag was set after the first retraction and found before the second
C31_Witness ==
    /\ hw.fn = "contact"
    /\ hw.pc = "returned"
    /\ hw.result = Err("Operation cancelled during contact retraction")
    /\ Retractions = 1
    /\ hw.max_steps = MaxSteps

\* ---------------------------------------------------------------- C32
\* the events of kind k that controller c has yielded
OfKind(c, k) == SelectSeq(Events(c), LAMBDA e : e.kind = k)

\* the devices of controller c are started in configuration order, each at
\* most once, and device_moving and device_completed follow the
\* device_started of their device with nothing in between
DevicePipelineOrder(c) ==
    /\ \A k \in 1..Len(OfKind(c, "device_started")) :
          OfKind(c, "device_started")[k].dev = k - 1
    /\ \A j \in 1..Len(Events(c)) :
          /\ Events(c)[j].kind = "device_moving" =>
                /\ j > 1
                /\ Events(c)[j - 1] = Entry("device_started", Events(c)[j].dev)
          /\ Events(c)[j].kind = "device_completed" =>
                /\ j > 1
                /\ Events(c)[j - 1] = Entry("device_moving", Events(c)[j].dev)
          /\ (Events(c)[j].kind = "device_started" /\ j < Len(Events(c))) =>
                Events(c)[j + 1] = Entry("device_moving", Events(c)[j].dev)

\* C32 (as claimed): devices are processed in configuration order, each at
\* most once, with device_started, device_moving, device_completed in a row
\* for each, and the alignment counter equals the number of device_completed
\* events emitted so far.
C32_Original ==
    \A c \in CtlIds :
        /\ DevicePipelineOrder(c)
        /\ ctls[c].alignment_counter = Len(OfKind(c, "device_completed"))

\* C32 (amended): devices are processed in configuration order, each at most
\* once, with device_started, device_moving, device_completed in a row for
\* each; the alignment counter equals the number of device_completed events
\* emitted so far, or one less while the latest event emitted is a
\* device_completed that run() has not been resumed from.
C32_PipelineAndCounter ==
    \A c \in CtlIds :
        /\ DevicePipelineOrder(c)
        /\ \/ ctls[c].alignment_counter = Len(OfKind(c, "device_completed"))
           \/ /\ ctls[c].alignment_counter = Len(OfKind(c, "device_completed")) - 1
              /\ Last(Events(c)).kind = "device_completed"
        /\ (Len(Events(c)) > 0 /\ Last(Events(c)).kind # "device_completed") =>
              ctls[c].alignment_counter = Len(OfKind(c, "device_completed"))
        /\ \A t \in TaskIds :
              (tasks[t].ctl = c /\ tasks[t].pc = "loop") =>
                  ctls[c].alignment_counter = Len(OfKind(c, "device_completed"))

\* two devices are done and counted and the third has been started
C32_Witness ==
    \E c \in CtlIds :
        /\ ctls[c].alignment_counter = 2
        /\ Len(OfKind(c, "device_completed")) = 2
        /\ Last(Events(c)) = Entry("device_started", 2)

\* ---------------------------------------------------------------- C33
\* run() of controller c yields an event of kind k in this step
Yields(c, k) ==
    /\ c <= Len(ctls')
    /\ Len(ctls'[c].events) = Len(ctls[c].events) + 1
    /\ Last(ctls'[c].events).kind = k

\* C33 (as claimed): between every measurement_paused and the following
\* measurement_resumed there is a resume() call: no resume() signal given
\* before measurement_paused is yielded is still standing at that moment, to
\* be taken for the resume of this pause. (resume() on an event that is set
\* changes nothing, so the model has no such call between the two events.)
C33_Original ==
    [][\A c \in CtlIds : Yields(c, "measurement_paused") => ~ctls[c].resume_event]_vars

\* ---------------------------------------------------------------- C34
\* C34 (as claimed): one pause() call pauses the run once: a run yields
\* measurement_paused at most once for it. (pause() on an event that is set
\* changes nothing: a controller sees one pause() call that counts.)
C34_Original ==
    \A c \in CtlIds : Len(OfKind(c, "measurement_paused")) <= 1

\* ---------------------------------------------------------------- C35
\* C35 (as claimed): when the task of a run has finished, however it ended,
\* both hardware clients that run() opened have been disconnected.
C35_Original ==
    \A t \in TaskIds :
        (Finished(t) /\ tasks[t].ctl # 0) =>
            /\ ctls[tasks[t].ctl].suruga # "open"
            /\ ctls[tasks[t].ctl].exfo # "open"

\* ---------------------------------------------------------------- C36
\* run() has been called twice on controller c
RunTwice(cs, c) == Len(SelectSeq(cs[c].events, LAMBDA e : e.kind = "measurement_started")) = 2

\* where the events of the second run() of controller c begin
SecondStart(c) == CHOOSE i \in 2..Len(Events(c)) : Events(c)[i].kind = "measurement_started"

\* the events the second run() of controller c has yielded
SecondRun(c) == SubSeq(Events(c), SecondStart(c), Len(Events(c)))

StartedThenFailed == <<Entry("measurement_started", NoneNum), Entry("measurement_failed", NoneNum)>>

\* C36: run() called a second time on a controller whose first run has
\* applied StartMeasurement yields measurement_started followed by
\* measurement_failed and nothing else (both of them once its task has ended
\* by itself), processes no device, and leaves the controller's state as it
\* was.
C36_SecondRunFails ==
    /\ [](\A c \in CtlIds : RunTwice(ctls, c) =>
              /\ IsPrefix(SecondRun(c), StartedThenFailed)
              /\ \A t \in TaskIds :
                    (tasks[t].ctl = c /\ tasks[t].status = "done") =>
                        SecondRun(c) = StartedThenFailed)
    /\ [][\A c \in CtlIds :
              (c <= Len(ctls') /\ RunTwice(ctls', c)) =>
                  /\ ctls'[c].state = ctls[c].state
                  /\ ctls'[c].alignment_counter = ctls[c].alignment_counter]_vars

\* a second run() on a controller whose first run had completed has ended with measurement_failed, its state still that of the first run
C36_Witness ==
    \E t \in TaskIds :
        /\ tasks[t].status = "done"
        /\ tasks[t].ctl # 0
        /\ RunTwice(ctls, tasks[t].ctl)
        /\ SecondRun(tasks[t].ctl) = StartedThenFailed
        /\ Len(OfKind(tasks[t].ctl, "measurement_completed")) = 1
        /\ ctls[tasks[t].ctl].state.status = "running"

\* ---------------------------------------------------------------- C37
\* MeasurementController.get_state of controller c
get_state(c) == ctls[c].state

\* C37: at every point of every run, also after its terminal event, the
\* status of the snapshot get_state() returns is Idle, Calibrating or
\* Running, never Paused and never terminal, and completed_at is unset.
C37_SnapshotNeverPausedNorTerminal ==
    \A c \in CtlIds :
        /\ get_state(c).status \in {"idle", "calibrating", "running"}
        /\ get_state(c).completed_at = NoneNum

\* a run has been cancelled after its first device and has ended, and the
\* snapshot still says Running
C37_Witness ==
    \E t \in TaskIds :
        /\ tasks[t].status = "done"
        /\ tasks[t].ctl # 0
        /\ Last(Events(tasks[t].ctl)) = Entry("measurement_cancelled", 1)
        /\ get_state(tasks[t].ctl).status = "running"

\* ---------------------------------------------------------------- C38
\* C38 (as claimed): when cancel() is signalled while the controller is
\* blocked at a pause checkpoint and resume() is called afterwards, no
\* device_started is yielded after that cancellation.
C38_Original ==
    [][canceller.blocked # 0 => ~Yields(canceller.blocked, "device_started")]_vars

\* ---------------------------------------------------------------- C39
\* C39 (as claimed): when MeasurementManager.cancel() returns, after a
\* graceful stop or after the timeout, is_active() is false (so that a
\* following start(config) is accepted and installs a new controller).
C39_Original ==
    [][(canceller.pc # "idle" /\ canceller'.pc = "idle") => ~IsActive']_vars

\* ---------------------------------------------------------------- C40
\* run() of controller c has yielded no device_skipped and no error_occurred
NoRejection(c) ==
    \A j \in 1..Len(Events(c)) : Events(c)[j].kind \notin {"device_skipped", "error_occurred"}

\* C40 (as claimed): in every run of a fresh controller StartDevice is never
\* rejected: no device_skipped and no error_occurred is yielded, and every
\* device whose pipeline has begun has reached device_completed when the
\* task of the run has finished.
C40_Original ==
    \A t \in TaskIds :
        (Finished(t) /\ tasks[t].ctl # 0) =>
            /\ NoRejection(tasks[t].ctl)
            /\ Len(OfKind(tasks[t].ctl, "device_started")) = Len(OfKind(tasks[t].ctl, "device_completed"))

\* the part of C40 about rejection alone
NeverRejected == \A c \in CtlIds : NoRejection(c)

====
